---- MODULE Spec2Model ----
(***************************************************************************)
(* Hop discovery (traceroute) of receek/rust-traceroute: the packet        *)
(* composer create_icmp_packet, the reply interpreter process_reply and    *)
(* the engine run_traceroute of src/src/tracroute.rs, as called by         *)
(* src/src/main.rs.  Packets are sequences of bytes (index 1 is offset 0). *)
(* Time is counted in whole seconds since timer_start.                     *)
(***************************************************************************)
EXTENDS Integers, Sequences, FiniteSets, TLC

\* ------------------------------------------------------------------------
\* Program constants
\* ------------------------------------------------------------------------
IPV4_HEADER_LEN == 21
ICMP_HEADER_LEN == 8
ICMP_PAYLOAD_LEN == 32
MAX_TTL == 64
requests_per_hop == 5
wait_time == 1
BUF_IP_LEN == 64
BUF_ICMP_LEN == 40

\* IcmpTypes of pnet, as the value of the type byte
EchoReply == 0
EchoRequest == 8
TimeExceeded == 11
DestinationUnreachable == 3
Icmp == 1

\* ------------------------------------------------------------------------
\* Bounds of the model
\* ------------------------------------------------------------------------
\* largest reading of the clock (seconds since timer_start) that is told apart
MaxElapsed == 2
\* packets the transport delivers in one collection window
MaxReplies == 6
\* packets already waiting in the receive buffer when a window opens
MaxBacklog == 1
\* hop count of the near destination
NearDist == 3

\* ------------------------------------------------------------------------
\* Bytes
\* ------------------------------------------------------------------------
Zeros(n) == [k \in 1..n |-> 0]

\* p[off] of the source (offsets start at 0)
At(p, off) == p[off + 1]

SetAt(p, off, v) == [p EXCEPT ![off + 1] = v]

\* &p[off..] of the source
From(p, off) == SubSeq(p, off + 1, Len(p))

\* big-endian 16 bit field at offset off
U16At(p, off) == At(p, off) * 256 + At(p, off + 1)

SetU16At(p, off, v) == SetAt(SetAt(p, off, (v \div 256) % 256), off + 1, v % 256)

\* copy_from_slice of vals into p at offset off
CopyAt(p, off, vals) ==
    [k \in 1..Len(p) |-> IF k > off /\ k <= off + Len(vals) THEN vals[k - off] ELSE p[k]]

\* "as u16" narrowed to 8 bits
AsU16Narrow(n) == n % 256

\* the conversion "as u16"
AsU16(n) == n % 65536

\* "as u8" narrowed to 6 bits
AsU8Narrow(n) == n % 64

\* the conversion "as u8"
AsU8(n) == n % 256

\* ------------------------------------------------------------------------
\* pnet::util::checksum(data, skipword): one's complement sum of the 16 bit
\* words of data, the word number skipword left out, folded and complemented
\* ------------------------------------------------------------------------
RECURSIVE SumWords(_, _, _)
SumWords(data, skipword, w) ==
    IF 2 * w >= Len(data) THEN 0
    ELSE (IF w = skipword THEN 0
          ELSE IF 2 * w + 1 < Len(data) THEN U16At(data, 2 * w)
          ELSE At(data, 2 * w) * 256)
         + SumWords(data, skipword, w + 1)

RECURSIVE Fold16(_)
Fold16(s) == IF s < 65536 THEN s ELSE Fold16((s % 65536) + (s \div 65536))

checksum(data, skipword) == 65535 - Fold16(SumWords(data, skipword, 0))

\* ------------------------------------------------------------------------
\* Packet Composer
\* ------------------------------------------------------------------------
\* Ipv4Packet::get_header_length, get_total_length, get_ttl
get_header_length(p) == At(p, 0) % 16
get_total_length(p) == U16At(p, 2)
get_ttl(p) == At(p, 8)

\* MutableIpv4Packet::set_version / set_header_length: 4 bit fields of byte 0
set_version(p, v) == SetAt(p, 0, (At(p, 0) % 16) + (v % 16) * 16)
set_header_length(p, v) == SetAt(p, 0, (At(p, 0) \div 16) * 16 + (v % 16))

\* offset of the payload of an IPv4 packet: 20 bytes and the options
PayloadOffset(p) ==
    20 + (IF get_header_length(p) > 5 THEN get_header_length(p) - 5 ELSE 0) * 4

\* EchoRequestPacket / EchoReplyPacket::get_sequence_number
get_sequence_number(p) == U16At(p, 6)

\* IcmpPacket::get_icmp_type
get_icmp_type(p) == At(p, 0)

\* ComposeIcmp taking the checksum before the sequence number is written
ComposeIcmpEarlySum(buf_icmp_, sequence_number) ==
    LET a == SetAt(buf_icmp_, 0, EchoRequest)
        b == SetU16At(a, 2, checksum(a, 1))
    IN  SetU16At(b, 6, sequence_number)

\* the ICMP buffer after lines 54-62
ComposeIcmp(buf_icmp_, sequence_number) ==
    LET a == SetAt(buf_icmp_, 0, EchoRequest)
        b == SetU16At(a, 6, sequence_number)
    IN  SetU16At(b, 2, checksum(b, 1))

\* the IPv4 buffer after lines 44-52
ComposeIpv4(buf_ip_, dest_, ttl_) ==
    LET a == set_version(buf_ip_, 4)
        b == set_header_length(a, AsU8(IPV4_HEADER_LEN))
        c == SetU16At(b, 2, AsU16(IPV4_HEADER_LEN + ICMP_HEADER_LEN + ICMP_PAYLOAD_LEN))
        d == SetAt(c, 8, ttl_)
        e == SetAt(d, 9, Icmp)
    IN  CopyAt(e, 16, dest_)

\* both buffers after the call: ip is the datagram returned
create_icmp_packet(buf_ip_, buf_icmp_, dest_, ttl_, sequence_number) ==
    LET icmp == ComposeIcmp(buf_icmp_, sequence_number)
        ip == ComposeIpv4(buf_ip_, dest_, ttl_)
    IN  [ip |-> CopyAt(ip, PayloadOffset(ip), icmp), icmp |-> icmp]

\* ------------------------------------------------------------------------
\* Reply Interpreter
\* ------------------------------------------------------------------------
\* an ICMP type that is not handled treated as a failure
UnknownTypePanics == [kind |-> "panic", msg |-> "Unknown ICMP type"]

NoReply == [kind |-> "none"]
Panic(m) == [kind |-> "panic", msg |-> m]
SomeReply(h) == [kind |-> "some", hop |-> h]

HopReply(host, duration, type, seq) ==
    [hop_addr |-> host, reply_time |-> duration, reply_type |-> type,
     sequence_number |-> seq]

\* process_reply looking for the quoted Echo Request behind the 8 byte header
\* of the Time Exceeded message and 12, not 20, bytes of quoted IPv4 header
process_reply_offset20(reply, host, duration) ==
    IF get_icmp_type(reply) = TimeExceeded
    THEN IF Len(reply) < 20 THEN Panic("slice index out of range")
         ELSE IF Len(From(reply, 20)) < 8
              THEN Panic("Parsing echo request packet failed!")
              ELSE SomeReply(HopReply(host, duration, TimeExceeded,
                                      get_sequence_number(From(reply, 20))))
    ELSE IF get_icmp_type(reply) = EchoReply
    THEN IF Len(reply) < 8
         THEN Panic("Parsing echo reply packet failed!")
         ELSE SomeReply(HopReply(host, duration, EchoReply,
                                 get_sequence_number(reply)))
    ELSE NoReply

\* reply is the ICMP message (the bytes after the outer IPv4 header)
process_reply(reply, host, duration) ==
    IF get_icmp_type(reply) = TimeExceeded
    THEN IF Len(reply) < 28 THEN Panic("slice index out of range")
         ELSE IF Len(From(reply, 28)) < 8
              THEN Panic("Parsing echo request packet failed!")
              ELSE SomeReply(HopReply(host, duration, TimeExceeded,
                                      get_sequence_number(From(reply, 28))))
    ELSE IF get_icmp_type(reply) = EchoReply
    THEN IF Len(reply) < 8
         THEN Panic("Parsing echo reply packet failed!")
         ELSE SomeReply(HopReply(host, duration, EchoReply,
                                 get_sequence_number(reply)))
    ELSE NoReply

\* lines 144-147: the outer IPv4 header is cut off at the fixed offset 20
InterpretDatagram(packet, host, duration) ==
    IF Len(packet) < 20 THEN Panic("slice index out of range")
    ELSE IF Len(From(packet, 20)) < 4 THEN Panic("Parsing reply failed!")
    ELSE process_reply(From(packet, 20), host, duration)

\* ------------------------------------------------------------------------
\* The network seen through the raw transport
\* ------------------------------------------------------------------------
\* the destination given to run_traceroute
dest == <<192, 0, 2, 1>>
LocalAddr == <<192, 0, 2, 99>>
OtherAddr == <<198, 51, 100, 7>>
Router(t) == <<10, 0, 0, t>>

\* hop counts of the destination: near, and at the ceiling
Distances == {NearDist, MAX_TTL}

\* the outer IPv4 header the transport hands over with every inbound packet
OuterIpv4(src, n) ==
    <<69, 0, ((20 + n) \div 256) % 256, (20 + n) % 256, 0, 0, 0, 0, 64, Icmp, 0, 0>>
    \o src \o LocalAddr

\* ICMP error message of type ty quoting a probe: 8 byte header, the
\* probe's IPv4 header and the first 8 bytes of its payload
QuoteOf(ty, probe) ==
    <<ty, 0, 0, 0, 0, 0, 0, 0>>
    \o SubSeq(probe, 1, get_header_length(probe) * 4)
    \o SubSeq(probe, get_header_length(probe) * 4 + 1, get_header_length(probe) * 4 + 8)

\* Echo Reply to a probe: identifier, sequence number and data echoed
EchoOf(probe) ==
    LET req == SubSeq(probe, PayloadOffset(probe) + 1,
                      PayloadOffset(probe) + ICMP_HEADER_LEN + ICMP_PAYLOAD_LEN)
    IN  <<EchoReply, 0, 0, 0>> \o SubSeq(req, 5, Len(req))

Inbound(src, icmp) == [packet |-> OuterIpv4(src, Len(icmp)) \o icmp, host |-> src]

\* who answers a probe sent with TTL t when the destination is d hops away
Responder(t, d) == IF t < d THEN Router(t) ELSE dest

VARIABLES
    pc,               \* position in run_traceroute
    ttl,              \* current TTL
    i,                \* index of the next probe of the batch
    is_destionantion, \* destination reached
    replies,          \* the batch: sequence of HopReply
    elapsed,          \* time since timer_start known to have passed
    receiving_time,   \* timeout handed to next_with_timeout
    buf_ip,           \* IPv4 buffer, reused by every probe
    buf_icmp,         \* ICMP buffer, reused by every probe
    dist,             \* hop count of the destination
    printed,          \* lines the last step wrote to the console
    tx,               \* datagrams the last step handed to the transport
    nsent,            \* number of probes handed to the transport so far
    panic,            \* message of the panic that ended the run, or ""
    collected,        \* size of the batch of this iteration before the filter
    rx                \* what next_with_timeout returned in the last step

vars == <<pc, ttl, i, is_destionantion, replies, elapsed, receiving_time,
          buf_ip, buf_icmp, dist, printed, tx, nsent, panic,
          collected, rx>>

packet_time_sec == wait_time

HeaderLine == [kind |-> "header"]
NoticeLine == [kind |-> "notice"]
\* a field printed as "*"; a printed address is the address, a printed time <<t>>
Star == <<>>
HopLine(t, addr, time) == [kind |-> "hop", hop |-> t, addr |-> addr, time |-> time]

\* results of next_with_timeout: not called, Ok(Some(..)) with the ICMP type
\* of the packet (-1 when the packet has no byte 20), Ok(None), Err
NoCall == [result |-> "none", icmp_type |-> -1]
GotPacket(packet) ==
    [result |-> "packet", icmp_type |-> IF Len(packet) > 20 THEN At(packet, 20) ELSE -1]
TimedOut == [result |-> "timeout", icmp_type |-> -1]
Failed == [result |-> "error", icmp_type |-> -1]

\* the probe the run sends with TTL t and index k
ProbeOf(t, k) ==
    create_icmp_packet(buf_ip, buf_icmp, dest, AsU8(t),
                       AsU16((t - 1) * requests_per_hop + k)).ip

\* replies of the current responder received in this window
Answered == Cardinality({j \in 1..Len(replies) :
                            replies[j].hop_addr = Responder(ttl, dist)})

\* genuine answer to the next unanswered probe of the batch (a duplicate of
\* an earlier answer once all have been answered)
GenuineReply ==
    LET probe == ProbeOf(ttl, Answered % requests_per_hop)
    IN  IF ttl < dist
        THEN Inbound(Router(ttl), QuoteOf(TimeExceeded, probe))
        ELSE Inbound(dest, EchoOf(probe))

\* packets that may already wait in the receive buffer when a window opens:
\* a late Time Exceeded for the last probe of the previous TTL, and replies
\* to another program's Echo Requests, whose sequence number is just past
\* or at the start of the current range
BacklogReplies ==
    (IF ttl > 1
     THEN {Inbound(Router(ttl - 1), QuoteOf(TimeExceeded, ProbeOf(ttl - 1, requests_per_hop - 1)))}
     ELSE {})
    \cup {Inbound(OtherAddr, EchoOf(ProbeOf(ttl + 1, 0))),
          Inbound(OtherAddr, EchoOf(ProbeOf(ttl, 0)))}

\* background traffic of another ICMP type
OtherTypeReplies ==
    {Inbound(Router(ttl), <<DestinationUnreachable, 1, 0, 0, 0, 0, 0, 0>> \o Zeros(28))}

\* malformed packets: shorter than the outer header, no ICMP header, a
\* Time Exceeded cut inside the quoted datagram, a truncated Echo Reply
MalformedReplies ==
    {[packet |-> SubSeq(OuterIpv4(OtherAddr, 0), 1, 12), host |-> OtherAddr],
     Inbound(OtherAddr, <<TimeExceeded, 0>>),
     Inbound(Router(ttl), <<TimeExceeded, 0, 0, 0, 0, 0, 0, 0>> \o Zeros(12)),
     Inbound(Router(ttl), <<TimeExceeded, 0, 0, 0, 0, 0, 0, 0>> \o Zeros(22)),
     Inbound(dest, <<EchoReply, 0, 0, 0, 0, 0>>)}

\* what next_with_timeout can return as Ok(Some(..)) in the current state
Deliverable ==
    (IF Len(replies) < MaxReplies THEN {GenuineReply} ELSE {})
    \cup (IF Len(replies) < MaxBacklog /\ Answered = 0 THEN BacklogReplies ELSE {})
    \cup OtherTypeReplies \cup MalformedReplies

\* ------------------------------------------------------------------------
\* Hop Discovery Engine
\* ------------------------------------------------------------------------
Init ==
    /\ pc = "while"
    /\ ttl = 1
    /\ i = 0
    /\ is_destionantion = FALSE
    /\ replies = <<>>
    /\ elapsed = 0
    /\ receiving_time = 0
    /\ buf_ip = Zeros(BUF_IP_LEN)
    /\ buf_icmp = Zeros(BUF_ICMP_LEN)
    /\ dist \in Distances
    /\ printed = <<HeaderLine>>
    /\ tx = <<>>
    /\ nsent = 0
    /\ panic = ""
    /\ collected = 0
    /\ rx = NoCall

\* a panic unwinds run_traceroute: its locals are dropped, nothing is printed
Abort(m) ==
    /\ pc' = "aborted"
    /\ panic' = m
    /\ replies' = <<>>
    /\ elapsed' = 0
    /\ receiving_time' = 0
    /\ printed' = <<>>
    /\ tx' = <<>>

\* line 117, condition true; lines 118-120
WhileEnter ==
    /\ pc = "while"
    /\ ~is_destionantion /\ ttl <= MAX_TTL
    /\ replies' = <<>>
    /\ elapsed' = 0
    /\ i' = 0
    /\ pc' = "send"
    /\ printed' = <<>>
    /\ tx' = <<>>
    /\ UNCHANGED <<ttl, is_destionantion, receiving_time, buf_ip, buf_icmp, dist,
                   nsent, panic>>
    /\ collected' = 0
    /\ rx' = NoCall

\* line 117, condition false; lines 185-187
WhileExit ==
    /\ pc = "while"
    /\ ~(~is_destionantion /\ ttl <= MAX_TTL)
    /\ printed' = IF ttl > MAX_TTL THEN <<NoticeLine>> ELSE <<>>
    /\ pc' = "done"
    /\ tx' = <<>>
    /\ UNCHANGED <<ttl, i, is_destionantion, replies, elapsed, receiving_time,
                   buf_ip, buf_icmp, dist, nsent, panic>>
    /\ UNCHANGED collected
    /\ rx' = NoCall

\* SendProbe leaving the for loop one probe early
SendProbeShort ==
    /\ pc = "send"
    /\ i < requests_per_hop
    /\ LET made == create_icmp_packet(buf_ip, buf_icmp, dest, AsU8(ttl),
                                      AsU16((ttl - 1) * requests_per_hop + i))
       IN  /\ buf_ip' = made.ip
           /\ buf_icmp' = made.icmp
           /\ tx' = <<made.ip>>
    /\ nsent' = nsent + 1
    /\ i' = i + 1
    /\ pc' = IF i + 2 < requests_per_hop THEN "send" ELSE "loop"
    /\ printed' = <<>>
    /\ UNCHANGED <<ttl, is_destionantion, replies, elapsed, receiving_time, dist, panic>>
    /\ UNCHANGED collected
    /\ rx' = NoCall

\* lines 122-131, send_to returns Ok
SendProbe ==
    /\ pc = "send"
    /\ i < requests_per_hop
    /\ LET made == create_icmp_packet(buf_ip, buf_icmp, dest, AsU8(ttl),
                                      AsU16((ttl - 1) * requests_per_hop + i))
       IN  /\ buf_ip' = made.ip
           /\ buf_icmp' = made.icmp
           /\ tx' = <<made.ip>>
    /\ nsent' = nsent + 1
    /\ i' = i + 1
    /\ pc' = IF i + 1 < requests_per_hop THEN "send" ELSE "loop"
    /\ printed' = <<>>
    /\ UNCHANGED <<ttl, is_destionantion, replies, elapsed, receiving_time, dist, panic>>
    /\ UNCHANGED collected
    /\ rx' = NoCall

\* lines 122-131, send_to returns Err
SendFail ==
    /\ pc = "send"
    /\ i < requests_per_hop
    /\ LET made == create_icmp_packet(buf_ip, buf_icmp, dest, AsU8(ttl),
                                      AsU16((ttl - 1) * requests_per_hop + i))
       IN  /\ buf_ip' = made.ip
           /\ buf_icmp' = made.icmp
    /\ Abort("Sending packet failed!")
    /\ UNCHANGED <<ttl, i, is_destionantion, dist, nsent>>
    /\ UNCHANGED collected
    /\ rx' = NoCall

\* lines 135-137: the clock is read and compared with the budget
LoopCheck ==
    /\ pc = "loop"
    /\ \E waiting_time \in elapsed..MaxElapsed :
          /\ elapsed' = waiting_time
          /\ pc' = IF waiting_time > packet_time_sec THEN "filter" ELSE "remaining"
    /\ printed' = <<>>
    /\ tx' = <<>>
    /\ UNCHANGED <<ttl, i, is_destionantion, replies, receiving_time, buf_ip, buf_icmp,
                   dist, nsent, panic>>
    /\ UNCHANGED collected
    /\ rx' = NoCall

\* line 139: the clock is read again; Duration subtraction panics below zero
Remaining ==
    /\ pc = "remaining"
    /\ \E now \in elapsed..MaxElapsed :
          IF now > packet_time_sec
          THEN Abort("overflow when subtracting durations")
          ELSE /\ elapsed' = now
               /\ receiving_time' = packet_time_sec - now
               /\ pc' = "recv"
               /\ printed' = <<>>
               /\ tx' = <<>>
               /\ UNCHANGED <<replies, panic>>
    /\ UNCHANGED <<ttl, i, is_destionantion, buf_ip, buf_icmp, dist, nsent>>
    /\ UNCHANGED collected
    /\ rx' = NoCall

\* lines 141-150: a packet is returned and interpreted; line 147 reads the
\* clock
Receive ==
    /\ pc = "recv"
    /\ \E in \in Deliverable, now \in elapsed..MaxElapsed :
          LET r == InterpretDatagram(in.packet, in.host, now)
          IN  /\ r.kind # "panic"
              /\ rx' = GotPacket(in.packet)
              /\ elapsed' = now
              /\ replies' = IF r.kind = "some" THEN Append(replies, r.hop)
                            ELSE replies
              /\ receiving_time' = 0
              /\ pc' = "loop"
              /\ printed' = <<>>
              /\ tx' = <<>>
              /\ UNCHANGED panic
    /\ UNCHANGED <<ttl, i, is_destionantion, buf_ip, buf_icmp, dist, nsent>>
    /\ UNCHANGED collected

\* lines 141-147: a packet is returned whose interpretation panics
ReceiveMalformed ==
    /\ pc = "recv"
    /\ \E in \in Deliverable :
          LET r == InterpretDatagram(in.packet, in.host, elapsed)
          IN  /\ r.kind = "panic"
              /\ rx' = GotPacket(in.packet)
              /\ Abort(r.msg)
    /\ UNCHANGED <<ttl, i, is_destionantion, buf_ip, buf_icmp, dist, nsent>>
    /\ UNCHANGED collected

\* line 151: nothing arrived before the timeout had run out
ReceiveTimeout ==
    /\ pc = "recv"
    /\ pc' = "filter"
    /\ receiving_time' = 0
    /\ elapsed' = elapsed + receiving_time
    /\ printed' = <<>>
    /\ tx' = <<>>
    /\ UNCHANGED <<ttl, i, is_destionantion, replies, buf_ip, buf_icmp,
                   dist, nsent, panic>>
    /\ UNCHANGED collected
    /\ rx' = TimedOut

\* ReceiveError handled like Ok(None): the window is closed
ReceiveErrorAsTimeout ==
    /\ pc = "recv"
    /\ pc' = "filter"
    /\ receiving_time' = 0
    /\ printed' = <<>>
    /\ tx' = <<>>
    /\ UNCHANGED <<ttl, i, is_destionantion, replies, elapsed, buf_ip, buf_icmp,
                   dist, nsent, panic>>
    /\ UNCHANGED collected
    /\ rx' = Failed

\* line 152: the transport reports an error
ReceiveError ==
    /\ pc = "recv"
    /\ Abort("Receiving packet error")
    /\ UNCHANGED <<ttl, i, is_destionantion, buf_ip, buf_icmp, dist, nsent>>
    /\ UNCHANGED collected
    /\ rx' = Failed

\* InRange with the upper end of the range included
InRangeUpperIncluded(reply, t) ==
    /\ (t - 1) * requests_per_hop <= reply.sequence_number
    /\ reply.sequence_number <= t * requests_per_hop

\* the closure of line 158-159
InRange(reply, t) ==
    /\ (t - 1) * requests_per_hop <= reply.sequence_number
    /\ reply.sequence_number < t * requests_per_hop

\* lines 157-160
FilterReplies(rs, t) == SelectSeq(rs, LAMBDA reply : InRange(reply, t))

\* AnyEchoReply asking every reply of a non-empty batch to be an Echo Reply
AllEchoReply(rs) == Len(rs) > 0 /\ \A j \in 1..Len(rs) : rs[j].reply_type = EchoReply

\* line 163
AnyEchoReply(rs) == \E j \in 1..Len(rs) : rs[j].reply_type = EchoReply

\* lines 156-163: the batch is replaced by the filtered one
Filter ==
    /\ pc = "filter"
    /\ replies' = FilterReplies(replies, ttl)
    /\ is_destionantion' = AnyEchoReply(FilterReplies(replies, ttl))
    /\ pc' = "report"
    /\ printed' = <<>>
    /\ tx' = <<>>
    /\ UNCHANGED <<ttl, i, elapsed, receiving_time, buf_ip, buf_icmp, dist, nsent, panic>>
    /\ collected' = Len(replies)
    /\ rx' = NoCall

RECURSIVE SumTimes(_)
SumTimes(rs) == IF rs = <<>> THEN 0 ELSE rs[1].reply_time + SumTimes(Tail(rs))

\* AverageTime without the division
AverageTimeUndivided(rs) == SumTimes(rs)

\* lines 176-177
AverageTime(rs) == SumTimes(rs) \div requests_per_hop

\* lines 165-180
ReportLines(rs, t) ==
    IF Len(rs) = 0 THEN <<HopLine(t, Star, Star)>>
    ELSE IF Len(rs) < requests_per_hop THEN <<HopLine(t, rs[1].hop_addr, Star)>>
    ELSE IF Len(rs) = requests_per_hop
         THEN <<HopLine(t, rs[1].hop_addr, <<AverageTime(rs)>>)>>
         ELSE <<>>

\* lines 165-182: the line is printed, the batch dropped, the TTL advanced
Report ==
    /\ pc = "report"
    /\ printed' = ReportLines(replies, ttl)
    /\ ttl' = ttl + 1
    /\ replies' = <<>>
    /\ elapsed' = 0
    /\ pc' = "while"
    /\ tx' = <<>>
    /\ UNCHANGED <<i, is_destionantion, receiving_time, buf_ip, buf_icmp, dist, nsent, panic>>
    /\ collected' = 0
    /\ rx' = NoCall

Next ==
    \/ WhileEnter
    \/ WhileExit
    \/ SendProbe
    \/ SendFail
    \/ LoopCheck
    \/ Remaining
    \/ Receive
    \/ ReceiveMalformed
    \/ ReceiveTimeout
    \/ ReceiveError
    \/ Filter
    \/ Report

Spec == Init /\ [][Next]_vars

TypeOK ==
    /\ pc \in {"while", "send", "loop", "remaining", "recv", "filter", "report", "done", "aborted"}
    /\ ttl \in 1..(MAX_TTL + 1)
    /\ i \in 0..requests_per_hop
    /\ Len(replies) <= MaxReplies

\* ------------------------------------------------------------------------
\* Properties
\* ------------------------------------------------------------------------
RangeOf(t) == ((t - 1) * requests_per_hop)..(t * requests_per_hop - 1)

\* indices of the replies of rs that answer probes of TTL t
RelevantIdx(rs, t) == {j \in 1..Len(rs) : rs[j].sequence_number \in RangeOf(t)}

\* the k-th smallest index of S
KthIdx(S, k) == CHOOSE j \in S : Cardinality({m \in S : m < j}) = k - 1

HasEchoReply(rs) == \E j \in 1..Len(rs) : rs[j].reply_type = EchoReply

HopLines(ls) == {j \in 1..Len(ls) : ls[j].kind = "hop"}

\* C1: the batch that is reported for TTL t holds exactly the collected
\* replies whose sequence number is in [(t-1)*requests_per_hop,
\* t*requests_per_hop), in arrival order; no other reply reaches the
\* reported address, the count, the mean or the destination check.
C1_StalenessFilter ==
    /\ [](pc = "report" =>
            \A j \in 1..Len(replies) : replies[j].sequence_number \in RangeOf(ttl))
    /\ [][pc = "filter" =>
            /\ Len(replies') = Cardinality(RelevantIdx(replies, ttl))
            /\ \A k \in 1..Len(replies') :
                  replies'[k] = replies[KthIdx(RelevantIdx(replies, ttl), k)]
            /\ is_destionantion' =
                  (\E j \in RelevantIdx(replies, ttl) : replies[j].reply_type = EchoReply)
         ]_vars
    /\ [][pc = "report" =>
            /\ is_destionantion' = is_destionantion
            /\ \A j \in HopLines(printed') :
                  /\ printed'[j].hop = ttl
                  /\ printed'[j].addr # Star =>
                        \E k \in 1..Len(replies) : printed'[j].addr = replies[k].hop_addr
         ]_vars

\* a stale reply was collected in the window and removed, others survived
C1_Witness ==
    /\ pc = "report"
    /\ collected > Len(replies)
    /\ Len(replies) > 0

\* C2: the run ends either as DestinationReached without the
\* ceiling-exceeded notice, or with the notice after TTL 64 was probed and
\* no surviving Echo Reply was seen.
C2_ExactlyOneOutcome ==
    pc = "done" =>
        /\ is_destionantion => printed = <<>>
        /\ printed = <<NoticeLine>> => (~is_destionantion /\ ttl = MAX_TTL + 1)
        /\ is_destionantion \/ printed = <<NoticeLine>>

\* C3: after the window of TTL t has closed, the probes of TTL t+1 are sent
\* exactly if t < 64 and the surviving batch of t holds no Echo Reply; once
\* a surviving Echo Reply was seen nothing more is sent and no further hop
\* line is printed.
C3_StopContinue ==
    /\ [](pc = "report" => (is_destionantion <=> HasEchoReply(replies)))
    /\ [][pc = "report" =>
            (pc' = "while" /\ ttl' = ttl + 1 /\ is_destionantion' = is_destionantion)]_vars
    /\ [][pc = "while" =>
            IF ttl - 1 < MAX_TTL /\ ~is_destionantion
            THEN pc' = "send" /\ ttl' = ttl
            ELSE pc' = "done"]_vars
    /\ [][tx' # <<>> => (pc = "send" /\ ~is_destionantion /\ get_ttl(tx'[1]) = ttl)]_vars
    /\ [][(is_destionantion /\ pc # "report") => HopLines(printed') = {}]_vars

\* the run stopped below the ceiling on an Echo Reply
C3_Witness ==
    /\ pc = "done"
    /\ is_destionantion
    /\ ttl <= MAX_TTL

\* C4: every iteration prints exactly one line for its TTL before the TTL
\* advances.
C4_OneLinePerTtl ==
    [][ttl' # ttl =>
         /\ Len(printed') = 1
         /\ printed'[1].kind = "hop"
         /\ printed'[1].hop = ttl]_vars

RECURSIVE TimesUpTo(_, _)
TimesUpTo(rs, n) == IF n = 0 THEN 0 ELSE TimesUpTo(rs, n - 1) + rs[n].reply_time

\* C5: with n surviving replies the line of the TTL is "*", "*" for n = 0,
\* the first reply's address and "*" for 1 <= n < requests_per_hop, the
\* first reply's address and the mean of all round-trip times for
\* n = requests_per_hop.
C5_ReportPolicy ==
    [][pc = "report" =>
         LET n == Len(replies)
         IN  /\ n = 0 => printed' = <<[kind |-> "hop", hop |-> ttl, addr |-> Star, time |-> Star]>>
             /\ (1 <= n /\ n <= requests_per_hop - 1) =>
                   printed' = <<[kind |-> "hop", hop |-> ttl,
                                 addr |-> replies[1].hop_addr, time |-> Star]>>
             /\ n = requests_per_hop =>
                   /\ Len(printed') = 1
                   /\ printed'[1].kind = "hop"
                   /\ printed'[1].hop = ttl
                   /\ printed'[1].addr = replies[1].hop_addr
                   /\ Len(printed'[1].time) = 1
                   /\ printed'[1].time[1] * requests_per_hop <= TimesUpTo(replies, n)
                   /\ TimesUpTo(replies, n) < (printed'[1].time[1] + 1) * requests_per_hop
    ]_vars

\* a full batch was reported with a mean of at least one second, its first
\* reply coming from another host than its last
C5_Witness ==
    /\ pc = "while"
    /\ Len(printed) = 1
    /\ printed[1].kind = "hop"
    /\ printed[1].time # Star
    /\ printed[1].time[1] >= 1
    /\ printed[1].addr = OtherAddr

ParsePanics ==
    {"slice index out of range", "Parsing reply failed!",
     "Parsing echo request packet failed!", "Parsing echo reply packet failed!"}

\* C6: a malformed inbound packet is skipped: the run is never ended by a
\* packet that cannot be parsed.
C6_MalformedSkipped == panic \notin ParsePanics

\* C7: the timeout computed from the second reading of the clock is the
\* budget less the elapsed time, clamped at zero, and the receive call
\* follows: the subtraction never ends the run.
C7_RemainingClamped ==
    [][pc = "remaining" =>
         /\ pc' = "recv"
         /\ receiving_time' = IF packet_time_sec - elapsed' > 0
                              THEN packet_time_sec - elapsed' ELSE 0]_vars

\* C8: the receive call of the transport is only made with a timeout that
\* is strictly positive.
C8_PositiveTimeout == pc = "recv" => receiving_time > 0

\* C9: the probe sent for TTL t with index k carries the sequence number
\* (t-1)*requests_per_hop + k, which is also the number of probes sent before
\* it (so no two probes share one); t is that number divided by
\* requests_per_hop, plus one, and is the TTL field of the datagram.
C9_ProbeIdentity ==
    tx # <<>> =>
        LET sequence == tx[1][27] * 256 + tx[1][28]
        IN  /\ Len(tx) = 1
            /\ ttl \in 1..MAX_TTL
            /\ i - 1 \in 0..(requests_per_hop - 1)
            /\ sequence = (ttl - 1) * requests_per_hop + (i - 1)
            /\ sequence = nsent - 1
            /\ ttl = sequence \div requests_per_hop + 1
            /\ tx[1][9] = ttl

\* the last probe of the run was sent
C9_Witness ==
    /\ tx # <<>>
    /\ ttl = MAX_TTL
    /\ i = requests_per_hop

\* any 20 bytes of outer IPv4 header
AnyOuter == <<69, 0, 0, 56, 0, 0, 0, 0, 250, 1, 0, 0, 10, 9, 9, 9, 192, 0, 2, 99>>

\* C10: a Time Exceeded message quoting the 20 byte IPv4 header of a probe
\* and the first 8 bytes of its Echo Request, and an Echo Reply echoing the
\* probe, are interpreted as replies of their type with the probe's
\* sequence number.
C10_CorrelationRoundTrip ==
    tx # <<>> =>
        LET s == (ttl - 1) * requests_per_hop + (i - 1)
            quoted == AnyOuter \o <<11, 0, 0, 0, 0, 0, 0, 0>>
                      \o SubSeq(tx[1], 1, 20) \o SubSeq(buf_icmp, 1, 8)
            echoed == AnyOuter \o <<0, 0, 0, 0>> \o SubSeq(buf_icmp, 5, Len(buf_icmp))
        IN  /\ tx[1][1] = 69
            /\ SubSeq(tx[1], 21, 60) = buf_icmp
            /\ InterpretDatagram(quoted, OtherAddr, 1) =
                  [kind |-> "some",
                   hop |-> [hop_addr |-> OtherAddr, reply_time |-> 1,
                            reply_type |-> 11, sequence_number |-> s]]
            /\ InterpretDatagram(echoed, dest, 1) =
                  [kind |-> "some",
                   hop |-> [hop_addr |-> dest, reply_time |-> 1,
                            reply_type |-> 0, sequence_number |-> s]]

\* a probe with a sequence number of more than 8 bits was composed
C10_Witness ==
    /\ tx # <<>>
    /\ nsent > 256
    /\ i = 1

RECURSIVE OnesSum(_, _)
\* sum of the 16 bit big-endian words of the first 2*n bytes of data
OnesSum(data, n) ==
    IF n = 0 THEN 0
    ELSE OnesSum(data, n - 1) + data[2 * n - 1] * 256 + data[2 * n]

RECURSIVE EndAround(_)
\* carries above 16 bits added back in
EndAround(x) == IF x <= 65535 THEN x ELSE EndAround((x % 65536) + (x \div 65536))

\* C11: the one's complement checksum taken over the whole ICMP message of
\* every probe, checksum field included, leaves no residual, also when the
\* buffer still held the previous probe's checksum and sequence number.
C11_ChecksumRoundTrip ==
    tx # <<>> =>
        /\ Len(buf_icmp) = 40
        /\ SubSeq(tx[1], 21, 60) = buf_icmp
        /\ 65535 - EndAround(OnesSum(buf_icmp, 20)) = 0

\* a probe was built in the buffer that held an earlier probe with a
\* non-zero sequence number
C11_Witness ==
    /\ tx # <<>>
    /\ nsent = requests_per_hop + 2
    /\ buf_icmp[8] # 0

\* C12: the header length field of every probe is the length of its header
\* in 32 bit words, and its total length field is that length in bytes plus
\* 8 plus 32, the number of bytes of header and ICMP message composed.
C12_LengthFields ==
    tx # <<>> =>
        /\ tx[1][1] % 16 = 5
        /\ SubSeq(tx[1], 4 * (tx[1][1] % 16) + 1, 4 * (tx[1][1] % 16) + Len(buf_icmp)) = buf_icmp
        /\ tx[1][3] * 256 + tx[1][4] = 4 * (tx[1][1] % 16) + 8 + 32
        /\ tx[1][3] * 256 + tx[1][4] = 4 * (tx[1][1] % 16) + Len(buf_icmp)

WindowOpen == pc \in {"loop", "remaining", "recv"}

\* C14: an inbound packet of an ICMP type other than Time Exceeded and Echo
\* Reply changes neither the batch, the TTL nor the destination flag, raises
\* no error, and collection goes on with the next check of the budget.
C14_OtherTypeIgnored ==
    [][(rx'.result = "packet" /\ rx'.icmp_type \notin {-1, 0, 11}) =>
         /\ replies' = replies
         /\ ttl' = ttl
         /\ is_destionantion' = is_destionantion
         /\ panic' = ""
         /\ pc' = "loop"
         /\ elapsed' >= elapsed
         /\ printed' = <<>>
         /\ tx' = <<>>]_vars

\* a Destination Unreachable was received after replies had been collected
C14_Witness ==
    /\ rx.result = "packet"
    /\ rx.icmp_type = 3
    /\ pc = "loop"
    /\ Len(replies) > 0

\* C15: each iteration hands exactly requests_per_hop probes to the
\* transport, in increasing order of sequence number, all of them before the
\* first receive call; nothing is sent while the window is open.
C15_SendBeforeReceive ==
    /\ [](WindowOpen => (i = requests_per_hop /\ nsent = ttl * requests_per_hop))
    /\ [][rx'.result # "none" => (pc = "recv" /\ nsent = ttl * requests_per_hop)]_vars
    /\ [][tx' # <<>> =>
            /\ ~WindowOpen
            /\ Len(tx') = 1
            /\ nsent' = nsent + 1
            /\ nsent' = (ttl - 1) * requests_per_hop + i'
            /\ i' \in 1..requests_per_hop
            /\ nsent > 0 =>
                  tx'[1][27] * 256 + tx'[1][28] > buf_icmp[7] * 256 + buf_icmp[8]]_vars

\* the receive call of the second TTL is reached
C15_Witness ==
    /\ pc = "recv"
    /\ ttl = 2
    /\ nsent = 2 * requests_per_hop

\* C16: a receive error ends the run at once: nothing is printed or sent in
\* that step and no step follows; a timeout is no error and only closes the
\* window.
C16_ReceiveErrorFatal ==
    /\ [][rx'.result = "error" =>
            (pc' = "aborted" /\ panic' # "" /\ printed' = <<>> /\ tx' = <<>> /\ ttl' = ttl)]_vars
    /\ [][pc # "aborted"]_vars
    /\ [][rx'.result = "timeout" =>
            (pc' = "filter" /\ panic' = "" /\ replies' = replies /\ ttl' = ttl)]_vars

\* a receive error ended a run that had reported hops before
C16_Witness ==
    /\ pc = "aborted"
    /\ rx.result = "error"
    /\ ttl > 1

\* C17: the TTL stays in 1..65 and probes are only sent with a TTL in 1..64,
\* so the TTL fits 8 bits and the sequence number 16 bits unchanged, and the
\* sequence number the filter reads from an answer is the one sent.
C17_NarrowingExact ==
    /\ ttl \in 1..(MAX_TTL + 1)
    /\ pc \in {"send", "loop", "remaining", "recv", "filter"} => ttl \in 1..MAX_TTL
    /\ tx # <<>> =>
          /\ ttl < 256
          /\ tx[1][9] = ttl
          /\ (ttl - 1) * requests_per_hop + (i - 1) < 65536
          /\ tx[1][27] * 256 + tx[1][28] = (ttl - 1) * requests_per_hop + (i - 1)
    /\ (WindowOpen \/ pc = "filter") =>
          \A j \in 1..Len(replies) :
             replies[j].hop_addr = Responder(ttl, dist) =>
                replies[j].sequence_number =
                   (ttl - 1) * requests_per_hop
                   + ((Cardinality({k \in 1..j : replies[k].hop_addr = Responder(ttl, dist)}) - 1)
                      % requests_per_hop)

\* the answers to all probes of TTL 64 are about to be filtered
C17_Witness ==
    /\ pc = "filter"
    /\ ttl = MAX_TTL
    /\ Len(replies) = requests_per_hop
    /\ \A j \in 1..Len(replies) : replies[j].hop_addr = Responder(ttl, dist)

\* C18: the destination flag is only set when an Echo Reply from the
\* destination address is in the surviving batch.
C18_EchoFromDestination ==
    (pc = "report" /\ is_destionantion) =>
        \E j \in 1..Len(replies) :
            /\ replies[j].reply_type = EchoReply
            /\ replies[j].hop_addr = dest

\* ------------------------------------------------------------------------
\* Runs in which every call of the transport returns a packet or a timeout
\* and every packet can be parsed, the clock advancing
\* ------------------------------------------------------------------------
ReturningNext ==
    \/ WhileEnter
    \/ WhileExit
    \/ SendProbe
    \/ LoopCheck
    \/ Remaining
    \/ Receive
    \/ ReceiveTimeout
    \/ Filter
    \/ Report

\* the clock is read at line 135 after the budget has gone by
ClockPastBudget == LoopCheck /\ pc' = "filter"

\* the steps that are taken whether or not a packet arrives: a receive call
\* that gets no packet returns by its timeout
EngineStep ==
    \/ WhileEnter
    \/ WhileExit
    \/ SendProbe
    \/ LoopCheck
    \/ Remaining
    \/ ReceiveTimeout
    \/ Filter
    \/ Report

FairSpec ==
    /\ Init
    /\ [][ReturningNext]_vars
    /\ WF_vars(EngineStep)
    /\ SF_vars(ClockPastBudget)

\* C13: with the clock advancing and the transport's calls returning, every
\* run reaches DestinationReached or TtlExceeded after at most 64
\* iterations, and a collection loop ends at the first check that finds the
\* budget used up, whatever packets arrive.
C13_Termination ==
    /\ <>(pc = "done")
    /\ [](ttl <= MAX_TTL + 1)
    /\ [][(pc = "loop" /\ elapsed' > packet_time_sec) => pc' = "filter"]_vars

====
